---- MODULE Spec2Model ----
\* A model of api/app.py (phaseify): the /analyze handler and its helpers
\* _get_api_data, _get_all_pages, _get_artist_genres, _get_season_key and
\* _get_ai_phase_details.
\*
\* Python values are modelled as follows.
\*   - a str is a sequence of atoms; an atom is one character ("2", "-", "Z")
\*     or one literal word of the source ("Winter", "Your", "Era");
\*   - None is the one-atom sequence None, a missing dict key is Missing;
\*   - a dict is a sequence of [k, v] records in insertion order;
\*   - a value that is an int or a str (avg_release_year) is a tagged record.
EXTENDS Integers, Sequences, FiniteSets, TLC

VARIABLES
  fn,                  \* the function the run entered: "analyze" or a helper
  pc,                  \* position of the run
  exc,                 \* the exception that ended the run ([type, at]) or NoExc
  nreq,                \* upstream HTTP requests issued so far (requests.get/post)
  dt,                  \* _get_season_key: its argument [month, year]
  key,                 \* _get_season_key: its return value
  lib,                 \* upstream: the saved-tracks collection, in server order
  limit,               \* _get_all_pages: limit
  endpoint,            \* _get_all_pages: endpoint
  items,               \* _get_all_pages: items
  lastPage,            \* upstream: the latest page exchange [asked, before, got, next]
  pageStats,           \* upstream: [nonEmpty, over, short] over the pages served
  artist_ids,          \* _get_artist_genres: artist_ids
  gi,                  \* _get_artist_genres: loop variable i
  genres_map,          \* _get_artist_genres: genres_map
  chunks,              \* upstream: the id lists of the artists requests received
  auth_code,           \* analyze: whether request.args has 'code'
  gemini_api_key,      \* whether GEMINI_API_KEY is set in the environment
  all_saved_tracks,    \* analyze: all_saved_tracks (None until assigned)
  all_tracks_info,     \* analyze: all_tracks_info, dict track id -> info
  artist_genres_map,   \* analyze: artist_genres_map (None until assigned)
  phases,              \* analyze: phases, dict key -> list of info
  sorted_keys,         \* analyze: sorted(phases.keys(), key=get_sort_key)
  ki,                  \* analyze: number of keys the for loop has taken
  used_album_ids,      \* analyze: used_album_ids
  picked,              \* analyze: per aggregated phase, the candidate line 184 took
  final_phases_output, \* analyze: final_phases_output
  page,                \* the response rendered: [template, error, phases]
  phase_tracks,        \* the phase being averaged (lines 188-189 on their own)
  avg_year             \* avg_year of lines 188-189

vars == <<fn, pc, exc, nreq, dt, key, lib, limit, endpoint, items, lastPage,
          pageStats, artist_ids, gi, genres_map, chunks, auth_code,
          gemini_api_key, all_saved_tracks, all_tracks_info, artist_genres_map,
          phases, sorted_keys, ki, used_album_ids, picked, final_phases_output,
          page, phase_tracks, avg_year>>

-----------------------------------------------------------------------------
\* Bounds of the model

\* page requests one call of _get_all_pages may issue before the model stops it
MaxPageRequests == 4
\* the largest limit _get_all_pages is called with on its own
MaxLimit == 101
\* the largest number of artist ids _get_artist_genres is called with on its own
MaxIds == 101
\* the latest year _get_season_key is applied to
MaxYear == 2026
\* the largest number of saved tracks of a user analyze runs on
MaxTracks == 3
\* the largest number of tracks of a phase whose years are averaged on their own
MaxPhaseTracks == 4

-----------------------------------------------------------------------------
\* Python values

None == <<"None">>
Missing == <<"Missing">>
NoExc == [type |-> "none", at |-> "none"]
Raised(t, where) == [type |-> t, at |-> where]

PyInt(n) == [t |-> "int", v |-> n]
PyStr(s) == [t |-> "str", v |-> s]

Min(a, b) == IF a <= b THEN a ELSE b

DigitChars == <<"0", "1", "2", "3", "4", "5", "6", "7", "8", "9">>
IsDigit(c) == \E d \in 1..10 : DigitChars[d] = c
DigitVal(c) == (CHOOSE d \in 1..10 : DigitChars[d] = c) - 1

RECURSIVE NatStr(_)
\* str(n) for n >= 0
NatStr(n) ==
  IF n < 10 THEN <<DigitChars[n + 1]>>
  ELSE NatStr(n \div 10) \o <<DigitChars[(n % 10) + 1]>>

\* str(n), as an f-string formats an int
IntStr(n) == IF n < 0 THEN <<"-">> \o NatStr(0 - n) ELSE NatStr(n)

RECURSIVE DigitsVal(_)
DigitsVal(s) ==
  IF s = <<>> THEN 0
  ELSE 10 * DigitsVal(SubSeq(s, 1, Len(s) - 1)) + DigitVal(s[Len(s)])

\* int(s): [ok, v]; not ok is ValueError
ParseInt(s) ==
  LET body == IF s # <<>> /\ s[1] \in {"-", "+"} THEN Tail(s) ELSE s
      neg == s # <<>> /\ s[1] = "-"
  IN IF body # <<>> /\ \A i \in 1..Len(body) : IsDigit(body[i])
     THEN [ok |-> TRUE, v |-> IF neg THEN 0 - DigitsVal(body) ELSE DigitsVal(body)]
     ELSE [ok |-> FALSE, v |-> 0]

\* the index of the first sep in s, or 0
Find(s, sep) ==
  IF \E i \in 1..Len(s) : s[i] = sep
  THEN CHOOSE i \in 1..Len(s) : s[i] = sep /\ \A j \in 1..(i - 1) : s[j] # sep
  ELSE 0

\* s.split(sep): the parts between the separators, in order
Split(s, sep) ==
  LET at == {i \in 1..Len(s) : s[i] = sep}
      \* the position of the k-th separator; 0 and Len(s) + 1 bound the string
      cut(k) == IF k = 0 THEN 0
                ELSE IF k > Cardinality(at) THEN Len(s) + 1
                ELSE CHOOSE i \in at : Cardinality({j \in at : j < i}) = k - 1
  IN [k \in 1..(Cardinality(at) + 1) |-> SubSeq(s, cut(k - 1) + 1, cut(k) - 1)]

\* s.replace(c, '')
Remove(s, c) == SelectSeq(s, LAMBDA x : x # c)

Reverse(s) == [i \in 1..Len(s) |-> s[Len(s) + 1 - i]]

\* tuple comparison a < b, for tuples of two ints
TupleLess(a, b) == a[1] < b[1] \/ (a[1] = b[1] /\ a[2] < b[2])

\* sorted(s, key=...) where ks[i] is the key of s[i]: the sort is stable, so
\* s[i] lands after every element with a smaller key and after the earlier
\* elements with an equal key
StableSort(s, ks) ==
  LET n == Len(s)
      pos(i) == 1 + Cardinality({j \in 1..n :
                      TupleLess(ks[j], ks[i]) \/ (ks[j] = ks[i] /\ j < i)})
  IN [p \in 1..n |-> s[CHOOSE i \in 1..n : pos(i) = p]]

\* dict helpers: a dict is a sequence of [k, v]
DictHas(d, k) == \E i \in 1..Len(d) : d[i].k = k
DictGet(d, k) == d[CHOOSE i \in 1..Len(d) : d[i].k = k].v
DictKeys(d) == [i \in 1..Len(d) |-> d[i].k]
\* d[e.k] = e.v for each e of entries, in order: a key keeps the place of its
\* first assignment and holds the value of its last
DictUpdate(d, entries) ==
  LET all == d \o entries
      firsts == {i \in 1..Len(all) : \A j \in 1..(i - 1) : all[j].k # all[i].k}
      nth(p) == CHOOSE i \in firsts : Cardinality({j \in firsts : j < i}) = p - 1
      last(i) == CHOOSE j \in 1..Len(all) :
                   /\ all[j].k = all[i].k
                   /\ \A m \in (j + 1)..Len(all) : all[m].k # all[i].k
  IN IF Cardinality(firsts) = Len(all) THEN all
     ELSE [p \in 1..Cardinality(firsts) |->
             [k |-> all[nth(p)].k, v |-> all[last(nth(p))].v]]
\* d[k] = v
DictSet(d, k, v) == DictUpdate(d, <<[k |-> k, v |-> v]>>)

-----------------------------------------------------------------------------
\* _get_season_key and get_sort_key

SeasonNames == <<"Winter", "Spring", "Summer", "Autumn">>

\* f"{season} {year}"
SeasonStr(season, year) == <<season, " ">> \o IntStr(year)

\* _get_season_key without the year - 1 of line 65
_get_season_key_jan_same_year(d) ==
  LET month == d.month
      year == d.year
  IN IF month \in {1, 2} THEN SeasonStr("Winter", year)
     ELSE IF month \in {3, 4, 5} THEN SeasonStr("Spring", year)
     ELSE IF month \in {6, 7, 8} THEN SeasonStr("Summer", year)
     ELSE IF month \in {9, 10, 11} THEN SeasonStr("Autumn", year)
     ELSE IF month = 12 THEN SeasonStr("Winter", year)
     ELSE None

_get_season_key(d) ==
  LET month == d.month
      year == d.year
  IN IF month \in {1, 2} THEN SeasonStr("Winter", year - 1)
     ELSE IF month \in {3, 4, 5} THEN SeasonStr("Spring", year)
     ELSE IF month \in {6, 7, 8} THEN SeasonStr("Summer", year)
     ELSE IF month \in {9, 10, 11} THEN SeasonStr("Autumn", year)
     ELSE IF month = 12 THEN SeasonStr("Winter", year)
     ELSE None

\* ["Winter", "Spring", "Summer", "Autumn"].index(season), from 0
SeasonIndex(season) == (CHOOSE i \in 1..4 : SeasonNames[i] = season) - 1

\* get_sort_key(key): the tuple (int(year_str), index)
get_sort_key(k) ==
  LET parts == Split(k, " ")
      season == parts[1]
      year_str == parts[2]
  IN <<ParseInt(year_str).v, SeasonIndex(season[1])>>

-----------------------------------------------------------------------------
\* Groups of variables, for UNCHANGED

seasonVars == <<dt, key>>
pageVars == <<limit, endpoint, items, lastPage, pageStats>>
genreVars == <<artist_ids, gi, genres_map, chunks>>
averageVars == <<phase_tracks, avg_year>>
runVars == <<all_saved_tracks, all_tracks_info, artist_genres_map, phases,
             sorted_keys, ki, used_album_ids, picked, final_phases_output>>
envVars == <<fn, lib, auth_code, gemini_api_key>>

\* a local that is not assigned yet, and one that is
Unassigned == [bound |-> FALSE, v |-> <<>>]
Bound(x) == [bound |-> TRUE, v |-> x]

NoPage == [template |-> "none", error |-> "", phases |-> <<>>]
AnalysisErrorPage ==
  [template |-> "login.html",
   error |-> "An error occurred during analysis. Please try again.",
   phases |-> <<>>]

\* an exception that is recorded but does not leave the function
abort_and_carry_on(e) == exc' = e /\ pc' = pc /\ page' = page

\* An exception leaves the function. In analyze everything after the code check
\* is inside try: the handler logs e and renders login.html with the error.
Abort(e) ==
  /\ exc' = e
  /\ IF fn = "analyze"
     THEN pc' = "done" /\ page' = AnalysisErrorPage
     ELSE pc' = "raised" /\ page' = page

-----------------------------------------------------------------------------
\* _get_api_data and _get_all_pages, with the paged collection endpoint

API_BASE_URL == "https://api.spotify.com/v1/"

\* the offset a request URL names (none: the first page)
UrlOffset(url) ==
  LET i == Find(url, "offset=")
  IN IF i = 0 THEN 0 ELSE ParseInt(SubSeq(url, i + 1, Len(url))).v

\* the URL of the page that starts after `off` items
NextUrl(off) == <<API_BASE_URL, "me/tracks?", "offset=">> \o NatStr(off)

\* the endpoint serves URLs of the collection only
UrlServed(url) == Len(url) >= 2 /\ url[1] = API_BASE_URL /\ url[2] = "me/tracks?"

\* How many items a page may hold when `asked` were asked for and `rest` remain.
\* The endpoint as documented sends what was asked for, or all that remain; a
\* helper on its own is also run against one that sends none, one, one fewer
\* or one more than asked.
PageSizes(asked, rest) ==
  IF fn = "analyze" THEN {Min(asked, rest)}
  ELSE {n \in {0, 1, asked - 1, asked, asked + 1, Min(asked, rest)} :
          0 <= n /\ n <= rest}

\* Whether a page that leaves `rest` items may carry a continuation reference:
\* as documented, exactly when items remain.
Continuations(rest) == IF fn = "analyze" THEN {rest > 0} ELSE BOOLEAN

\* a page_limit that ignores the items held
page_limit_always_50(lim, n) == 50

\* page_limit = min(50, limit - len(items))
page_limit(lim, n) == Min(50, lim - n)

\* items.extend(fetched_items)
extend(its, fetched_items) == its \o fetched_items

\* the while condition of _get_all_pages
PagesLoop == endpoint # None /\ endpoint # <<>> /\ Len(items) < limit

\* One iteration of the while loop: a request the endpoint answers with a page.
\* raise_for_status() raises on a non-success status and on a URL not served.
PageRequest ==
  /\ pc = "pages"
  /\ PagesLoop
  /\ pageStats.requests < MaxPageRequests
  /\ nreq' = nreq + 1
  /\ LET asked == page_limit(limit, Len(items))
         url == <<API_BASE_URL>> \o endpoint
         off == UrlOffset(url)
     IN \/ /\ Abort(Raised("HTTPError", "_get_all_pages"))
           /\ UNCHANGED pageVars
        \/ /\ UrlServed(url)
           /\ off <= Len(lib)
           /\ \E got \in PageSizes(asked, Len(lib) - off) :
              \E more \in Continuations(Len(lib) - off - got) :
                LET fetched_items == SubSeq(lib, off + 1, off + got)
                    next_url == IF more THEN NextUrl(off + got) ELSE None
                    grown == extend(items, fetched_items)
                IN /\ items' = grown
                   /\ endpoint' = IF next_url # None /\ next_url # <<>>
                                     /\ Len(grown) < limit
                                  THEN Remove(next_url, API_BASE_URL)
                                  ELSE None
                   /\ lastPage' = [asked |-> asked, before |-> Len(items),
                                   got |-> got, next |-> more]
                   /\ pageStats' =
                        [requests |-> pageStats.requests + 1,
                         nonEmpty |-> pageStats.nonEmpty + (IF got > 0 THEN 1 ELSE 0),
                         over |-> pageStats.over \/ got > asked,
                         short |-> pageStats.short \/ (more /\ got < asked)]
           /\ UNCHANGED <<limit, pc, exc, page>>
  /\ UNCHANGED <<envVars, seasonVars, genreVars, averageVars, runVars>>

\* _get_all_pages returns items (line 50). In analyze the list is
\* all_saved_tracks: an empty one renders the timeline with its message
\* (lines 137-138), any other goes on to the loop of lines 142-148.
PagesReturn ==
  /\ pc = "pages"
  /\ ~PagesLoop
  /\ IF fn = "analyze"
     THEN /\ all_saved_tracks' = Bound(items)
          /\ IF items = <<>>
             THEN /\ pc' = "done"
                  /\ page' = [template |-> "timeline.html",
                              error |-> "No saved songs found to analyze.",
                              phases |-> <<>>]
             ELSE pc' = "extract" /\ page' = page
     ELSE pc' = "returned" /\ UNCHANGED <<all_saved_tracks, page>>
  /\ UNCHANGED <<exc, nreq, envVars, seasonVars, pageVars, genreVars, averageVars,
                 all_tracks_info, artist_genres_map, phases, sorted_keys, ki,
                 used_album_ids, picked, final_phases_output>>

-----------------------------------------------------------------------------
\* _get_artist_genres, with the batch attribute endpoint

RECURSIVE Join(_, _)
\* sep.join(list), joined half by half
Join(list, sep) ==
  IF list = <<>> THEN <<>>
  ELSE IF Len(list) = 1 THEN list[1]
  ELSE LET h == Len(list) \div 2
       IN Join(SubSeq(list, 1, h), sep) \o <<sep>>
            \o Join(SubSeq(list, h + 1, Len(list)), sep)

\* What the endpoint may answer for the ids it was asked: an entity with
\* genres for each id (the documented answer) and, for a helper on its own, an
\* entity without a genres key for each, null for the first id, null for every
\* id, or a body without an artists key.
ArtistAnswers ==
  IF fn = "analyze" THEN {"genres"}
  ELSE {"genres", "no_genres", "first_null", "all_null", "no_artists"}

ArtistEntities(ids, answer) ==
  [n \in 1..Len(ids) |->
     CASE answer = "genres" -> [null |-> FALSE, id |-> ids[n], genres |-> <<"rock">>]
       [] answer = "no_genres" -> [null |-> FALSE, id |-> ids[n], genres |-> Missing]
       [] answer = "first_null" ->
            [null |-> n = 1, id |-> ids[n], genres |-> <<"rock">>]
       [] OTHER -> [null |-> TRUE, id |-> ids[n], genres |-> Missing]]

\* for artist in data.get('artists', []):
\*     if artist: genres_map[artist['id']] = artist.get('genres', [])
MergeArtists(map, artists) ==
  LET found == SelectSeq(artists, LAMBDA artist : ~artist.null)
  IN DictUpdate(map,
       [n \in 1..Len(found) |->
          [k |-> found[n].id,
           v |-> IF found[n].genres = Missing THEN <<>> ELSE found[n].genres]])

\* artist_ids[i:i+51]
chunk_overlapping(ids, i) == SubSeq(ids, i + 1, Min(i + 51, Len(ids)))

\* chunk = artist_ids[i:i+50]
chunk(ids, i) == SubSeq(ids, i + 1, Min(i + 50, Len(ids)))

\* One iteration of the for loop over range(0, len(artist_ids), 50).
GenreRequest ==
  /\ pc = "genres"
  /\ artist_ids # <<>>
  /\ gi < Len(artist_ids)
  /\ nreq' = nreq + 1
  /\ \/ /\ Abort(Raised("HTTPError", "_get_artist_genres"))
        /\ UNCHANGED genreVars
     \/ /\ \E answer \in ArtistAnswers :
             LET params == Join(chunk(artist_ids, gi), ",")
                 asked == Split(params, ",")
                 artists == IF answer = "no_artists" THEN <<>>
                            ELSE ArtistEntities(asked, answer)
             IN /\ chunks' = Append(chunks, asked)
                /\ genres_map' = MergeArtists(genres_map, artists)
        /\ gi' = gi + 50
        /\ UNCHANGED <<artist_ids, pc, exc, page>>
  /\ UNCHANGED <<envVars, seasonVars, pageVars, averageVars, runVars>>

\* _get_artist_genres returns genres_map: at once for no ids (line 54), else
\* after the last chunk (line 61). In analyze it is artist_genres_map.
GenresReturn ==
  /\ pc = "genres"
  /\ artist_ids = <<>> \/ gi >= Len(artist_ids)
  /\ IF fn = "analyze"
     THEN pc' = "segment" /\ artist_genres_map' = Bound(genres_map)
     ELSE pc' = "returned" /\ UNCHANGED artist_genres_map
  /\ UNCHANGED <<exc, nreq, page, envVars, seasonVars, pageVars, genreVars,
                 averageVars, all_saved_tracks, all_tracks_info, phases,
                 sorted_keys, ki, used_album_ids, picked, final_phases_output>>

-----------------------------------------------------------------------------
\* The state before a function is entered

NoExchange == [asked |-> 0, before |-> 0, got |-> 0, next |-> FALSE]
NoPages == [requests |-> 0, nonEmpty |-> 0, over |-> FALSE, short |-> FALSE]

SeasonIdle == dt = [month |-> 1, year |-> 1] /\ key = None
PagesIdle ==
  /\ limit = 0 /\ endpoint = None /\ items = <<>>
  /\ lastPage = NoExchange /\ pageStats = NoPages
GenresIdle == artist_ids = <<>> /\ gi = 0 /\ genres_map = <<>> /\ chunks = <<>>
AverageIdle == phase_tracks = <<>> /\ avg_year = PyStr("unset")
RunIdle ==
  /\ all_saved_tracks = Unassigned /\ all_tracks_info = <<>>
  /\ artist_genres_map = Unassigned /\ phases = <<>> /\ sorted_keys = <<>>
  /\ ki = 0 /\ used_album_ids = {} /\ picked = <<>> /\ final_phases_output = <<>>
Fresh == exc = NoExc /\ nreq = 0 /\ page = NoPage

-----------------------------------------------------------------------------
\* _get_season_key on its own

\* datetime years start at 1; the years just after it and the recent ones
Years == (1..3) \cup ((MaxYear - 8)..MaxYear)

InitSeason ==
  /\ fn = "_get_season_key" /\ pc = "call" /\ Fresh
  /\ dt \in [month : 1..12, year : Years]
  /\ key = None
  /\ lib = <<>> /\ auth_code = FALSE /\ gemini_api_key = FALSE
  /\ PagesIdle /\ GenresIdle /\ AverageIdle /\ RunIdle

SeasonKeyCall ==
  /\ fn = "_get_season_key" /\ pc = "call"
  /\ key' = _get_season_key(dt)
  /\ pc' = "returned"
  /\ UNCHANGED <<dt, exc, nreq, page, envVars, pageVars, genreVars, averageVars,
                 runVars>>

NextSeason == SeasonKeyCall

SpecSeason == InitSeason /\ [][NextSeason]_vars

-----------------------------------------------------------------------------
\* _get_all_pages on its own

\* the url analyze passes
TracksUrl == <<"me/tracks?", "limit=50">>

\* the caps, and the sizes of the collection behind the endpoint
Limits == {0, 1, 2, 3, 49, 50, 51, 100, MaxLimit}
Totals == {0, 1, 2, 3, 50, 51, 100, MaxLimit + 1}

InitPages ==
  /\ fn = "_get_all_pages" /\ pc = "pages" /\ Fresh
  /\ limit \in Limits
  /\ \E total \in Totals : lib = [n \in 1..total |-> n]
  /\ endpoint = TracksUrl /\ items = <<>>
  /\ lastPage = NoExchange /\ pageStats = NoPages
  /\ auth_code = FALSE /\ gemini_api_key = FALSE
  /\ SeasonIdle /\ GenresIdle /\ AverageIdle /\ RunIdle

NextPages == PageRequest \/ PagesReturn

SpecPages == InitPages /\ [][NextPages]_vars

-----------------------------------------------------------------------------
\* _get_artist_genres on its own

\* the n-th artist id
ArtistId(n) == <<"a">> \o NatStr(n)

InitGenres ==
  /\ fn = "_get_artist_genres" /\ pc = "genres" /\ Fresh
  /\ \E n \in 0..MaxIds : artist_ids = [a \in 1..n |-> ArtistId(a)]
  /\ gi = 0 /\ genres_map = <<>> /\ chunks = <<>>
  /\ lib = <<>> /\ auth_code = FALSE /\ gemini_api_key = FALSE
  /\ SeasonIdle /\ PagesIdle /\ AverageIdle /\ RunIdle

NextGenres == GenreRequest \/ GenresReturn

SpecGenres == InitGenres /\ [][NextGenres]_vars

-----------------------------------------------------------------------------
\* analyze: the saved-track items and the loop of lines 142-148

PLACEHOLDER == "https://placehold.co/128x128/121212/FFFFFF?text=?"

\* int(album.get('release_date', '0').split('-')[0]): [ok, v, exc]
ReleaseYear(release_date) ==
  IF release_date = None
  THEN [ok |-> FALSE, v |-> 0, exc |-> "AttributeError"]
  ELSE LET text == IF release_date = Missing THEN <<"0">> ELSE release_date
           year == ParseInt(Split(text, "-")[1])
       IN IF year.ok THEN [ok |-> TRUE, v |-> year.v, exc |-> "none"]
          ELSE [ok |-> FALSE, v |-> 0, exc |-> "ValueError"]

\* if not track or not track.get('id'): continue
Skipped(item) == ~item.track

\* the value line 147 stores for an item
TrackInfo(item) ==
  [artist_id |-> item.artist_id,
   album_id |-> item.album_id,
   release_year |-> ReleaseYear(item.release_date).v,
   added_at |-> item.added_at,
   cover_url |-> IF item.images # <<>> THEN item.images[1] ELSE PLACEHOLDER]

\* The for loop of lines 142-148 over all_saved_tracks: [exc, info, artists].
\* The first item whose release date int() rejects ends it with the exception.
ExtractTracks(saved) ==
  LET kept == SelectSeq(saved, LAMBDA item : ~Skipped(item))
      bad == {n \in 1..Len(kept) : ~ReleaseYear(kept[n].release_date).ok}
      first == CHOOSE n \in bad : \A m \in bad : n <= m
  IN IF bad # {}
     THEN [exc |-> ReleaseYear(kept[first].release_date).exc,
           info |-> <<>>, artists |-> {}]
     ELSE [exc |-> "none",
           info |-> DictUpdate(<<>>, [n \in 1..Len(kept) |->
                                        [k |-> kept[n].id, v |-> TrackInfo(kept[n])]]),
           artists |-> {kept[n].artist_id : n \in 1..Len(kept)} \ {None}]

\* list(a_set): the elements in some order
ListsOf(S) ==
  {l \in [1..Cardinality(S) -> S] : \A a, b \in 1..Cardinality(S) : a # b => l[a] # l[b]}

\* Lines 140-150, up to the call of _get_artist_genres.
Extract ==
  /\ fn = "analyze" /\ pc = "extract"
  /\ LET r == ExtractTracks(all_saved_tracks.v)
     IN IF r.exc # "none"
        THEN /\ Abort(Raised(r.exc, "release_date"))
             /\ UNCHANGED <<all_tracks_info, genreVars>>
        ELSE /\ all_tracks_info' = r.info
             /\ artist_ids' \in ListsOf(r.artists)
             /\ gi' = 0 /\ genres_map' = <<>> /\ chunks' = chunks
             /\ pc' = "genres"
             /\ UNCHANGED <<exc, page>>
  /\ UNCHANGED <<nreq, envVars, seasonVars, pageVars, averageVars,
                 all_saved_tracks, artist_genres_map, phases, sorted_keys, ki,
                 used_album_ids, picked, final_phases_output>>

-----------------------------------------------------------------------------
\* analyze: segmentation, lines 152-165

AllDigits(s) == s # <<>> /\ \A i \in 1..Len(s) : IsDigit(s[i])

\* datetime.fromisoformat(s): [ok, month, year]; not ok is ValueError.
\* The date part is YYYY-MM-DD; a time part, when there is one, follows a
\* separator character.
FromIsoFormat(s) ==
  LET wellFormed ==
        /\ Len(s) >= 10
        /\ AllDigits(SubSeq(s, 1, 4)) /\ s[5] = "-"
        /\ AllDigits(SubSeq(s, 6, 7)) /\ s[8] = "-"
        /\ AllDigits(SubSeq(s, 9, 10))
        /\ Len(s) # 11
      year == DigitsVal(SubSeq(s, 1, 4))
      month == DigitsVal(SubSeq(s, 6, 7))
      day == DigitsVal(SubSeq(s, 9, 10))
  IN IF wellFormed /\ year >= 1 /\ month \in 1..12 /\ day \in 1..31
     THEN [ok |-> TRUE, month |-> month, year |-> year]
     ELSE [ok |-> FALSE, month |-> 0, year |-> 0]

\* datetime.fromisoformat(info['added_at'].replace('Z', '')): [exc, month, year]
AddedAt(added_at) ==
  IF added_at = None THEN [exc |-> "AttributeError", month |-> 0, year |-> 0]
  ELSE LET d == FromIsoFormat(Remove(added_at, "Z"))
       IN [exc |-> IF d.ok THEN "none" ELSE "ValueError",
           month |-> d.month, year |-> d.year]

RECURSIVE Segment(_, _)
\* for track_id, info in all_tracks_info.items(): ... phases[key].append(info)
\* over the infos left, into the phases so far
Segment(infos, sofar) ==
  IF infos = <<>> THEN sofar
  ELSE LET info == infos[1].v
           k == _get_season_key(AddedAt(info.added_at))
           bucket == IF DictHas(sofar, k) THEN DictGet(sofar, k) ELSE <<>>
       IN Segment(Tail(infos),
                  IF k # None THEN DictSet(sofar, k, Append(bucket, info)) ELSE sofar)

\* sorted by (season index, year)
sorted_by_season_first(keys) ==
  StableSort(keys, [n \in 1..Len(keys) |->
                      <<get_sort_key(keys[n])[2], get_sort_key(keys[n])[1]>>])

\* sorted(phases.keys(), key=get_sort_key)
sorted_by_sort_key(keys) ==
  StableSort(keys, [n \in 1..Len(keys) |-> get_sort_key(keys[n])])

\* Lines 152-165, up to the first iteration of the loop over the sorted keys.
SegmentTracks ==
  /\ fn = "analyze" /\ pc = "segment"
  /\ LET bad == {n \in 1..Len(all_tracks_info) :
                   AddedAt(all_tracks_info[n].v.added_at).exc # "none"}
         first == CHOOSE n \in bad : \A m \in bad : n <= m
     IN IF bad # {}
        THEN /\ Abort(Raised(AddedAt(all_tracks_info[first].v.added_at).exc,
                             "added_at"))
             /\ UNCHANGED <<phases, sorted_keys>>
        ELSE /\ phases' = Segment(all_tracks_info, <<>>)
             /\ sorted_keys' = sorted_by_sort_key(DictKeys(phases'))
             /\ pc' = "aggregate"
             /\ UNCHANGED <<exc, page>>
  /\ UNCHANGED <<nreq, envVars, seasonVars, pageVars, genreVars, averageVars,
                 all_saved_tracks, all_tracks_info, artist_genres_map, ki,
                 used_album_ids, picked, final_phases_output>>

-----------------------------------------------------------------------------
\* analyze: aggregation of one phase, lines 166-200

RECURSIVE album_stats(_, _)
\* for track in phase_tracks: if track.get('album_id'): count += 1; cover = ...
\* a dict album id -> [count, cover], over the tracks left
album_stats(tracks, sofar) ==
  IF tracks = <<>> THEN sofar
  ELSE LET track == tracks[1]
           old == IF DictHas(sofar, track.album_id)
                  THEN DictGet(sofar, track.album_id)
                  ELSE [count |-> 0, cover |-> ""]
       IN album_stats(Tail(tracks),
            IF track.album_id # None /\ track.album_id # <<>>
            THEN DictSet(sofar, track.album_id,
                         [count |-> old.count + 1, cover |-> track.cover_url])
            ELSE sofar)

\* sorted([{'id': aid, **stats} ...], key=lambda x: x['count'], reverse=True):
\* reverse=True keeps the order of equal counts
album_candidates(tracks) ==
  LET stats == album_stats(tracks, <<>>)
      list == [n \in 1..Len(stats) |->
                 [id |-> stats[n].k, count |-> stats[n].v.count,
                  cover |-> stats[n].v.cover]]
  IN StableSort(list, [n \in 1..Len(list) |-> <<0 - list[n].count, 0>>])

\* the first element of seq that satisfies Test, as an index, or 0
FirstIndex(seq, Test(_)) ==
  IF \E n \in 1..Len(seq) : Test(seq[n])
  THEN CHOOSE n \in 1..Len(seq) : Test(seq[n]) /\ \A m \in 1..(n - 1) : ~Test(seq[m])
  ELSE 0

\* line 184: the candidate next() takes, as an index into candidates, or 0
Unused(candidates, used) == FirstIndex(candidates, LAMBDA c : c.id \notin used)

\* line 184: cover_url
CoverUrl(candidates, used) ==
  IF Unused(candidates, used) # 0
  THEN candidates[Unused(candidates, used)].cover
  ELSE PLACEHOLDER

\* line 185: used_album_ids after the phase; the id added is that of the first
\* candidate whose cover is cover_url
UsedAfter(candidates, used) ==
  LET cover_url == CoverUrl(candidates, used)
      n == FirstIndex(candidates, LAMBDA c : c.cover = cover_url)
  IN IF cover_url # PLACEHOLDER
     THEN used \cup {IF n # 0 THEN candidates[n].id ELSE None}
     ELSE used

RECURSIVE Sum(_)
Sum(s) == IF s = <<>> THEN 0 ELSE s[1] + Sum(Tail(s))

\* round(a / b) for ints a >= 0, b > 0: halves go to the even neighbour
Round(a, b) ==
  LET q == a \div b
      r == a % b
  IN IF 2 * r < b THEN q
     ELSE IF 2 * r > b THEN q + 1
     ELSE IF q % 2 = 0 THEN q ELSE q + 1

\* the years with >= 0 in place of > 0
valid_years_with_zero(tracks) ==
  LET with == SelectSeq(tracks, LAMBDA t : t.release_year >= 0)
  IN [n \in 1..Len(with) |-> with[n].release_year]

\* valid_years = [t['release_year'] for t in phase_tracks if ... > 0]
valid_years(tracks) ==
  LET with == SelectSeq(tracks, LAMBDA t : t.release_year > 0)
  IN [n \in 1..Len(with) |-> with[n].release_year]

\* avg_year = round(sum(valid_years) / len(valid_years)) if valid_years else 'N/A'
AvgYear(tracks) ==
  LET years == valid_years(tracks)
  IN IF years # <<>> THEN PyInt(Round(Sum(years), Len(years)))
     ELSE PyStr("N/A")

\* f"Your {period} Era" and the summary of the fallback, line 73
Fallback(period) ==
  [dict |-> TRUE,
   phase_name |-> <<"Your", " ">> \o period \o <<" ", "Era">>,
   phase_summary |-> <<"A distinct period in your listening journey.">>]

\* What the generation service may do with a request: fail (no connection, an
\* error status, a timeout, a body that is no JSON or lacks the candidates),
\* or answer with JSON text that is an object with both keys, an object
\* without them, or no object at all.
Generations == {"fails", "object", "object_without_keys", "not_an_object"}

\* _get_ai_phase_details(phase_characteristics, top_artists) given what the
\* service does: [exc, asked, details], asked saying a request was issued.
\* The prompt, with avg_release_year > 2010, is built before the try.
_get_ai_phase_details(period, avg_release_year, api_key, generation) ==
  IF ~api_key
  THEN [exc |-> "none", asked |-> FALSE, details |-> Fallback(period)]
  ELSE IF avg_release_year.t # "int"
  THEN [exc |-> "TypeError", asked |-> FALSE, details |-> Fallback(period)]
  ELSE [exc |-> "none", asked |-> TRUE,
        details |->
          CASE generation = "fails" -> Fallback(period)
            [] generation = "object" ->
                 [dict |-> TRUE, phase_name |-> <<"generated name">>,
                  phase_summary |-> <<"generated summary">>]
            [] generation = "object_without_keys" ->
                 [dict |-> TRUE, phase_name |-> Missing, phase_summary |-> Missing]
            [] OTHER ->
                 [dict |-> FALSE, phase_name |-> Missing, phase_summary |-> Missing]]

\* One iteration of the loop of line 165, for the next key in sorted order.
AggregatePhase ==
  /\ fn = "analyze" /\ pc = "aggregate"
  /\ ki < Len(sorted_keys)
  /\ LET period == sorted_keys[ki + 1]
         tracks == DictGet(phases, period)
         candidates == album_candidates(tracks)
         cover_url == CoverUrl(candidates, used_album_ids)
         pick == Unused(candidates, used_album_ids)
         year == AvgYear(tracks)
     IN \E generation \in Generations :
          LET ai == _get_ai_phase_details(period, year, gemini_api_key, generation)
          IN /\ ai.asked \/ generation = "fails"
             /\ nreq' = nreq + (IF ai.asked THEN 1 ELSE 0)
             /\ used_album_ids' = UsedAfter(candidates, used_album_ids)
             /\ picked' = Append(picked,
                  [period |-> period,
                   id |-> IF pick # 0 THEN candidates[pick].id ELSE None,
                   cover |-> cover_url])
             /\ ki' = ki + 1
             /\ IF ai.exc # "none"
                THEN /\ Abort(Raised(ai.exc, "_get_ai_phase_details"))
                     /\ UNCHANGED final_phases_output
                ELSE IF ~ai.details.dict
                THEN /\ Abort(Raised("AttributeError", "ai_details.get"))
                     /\ UNCHANGED final_phases_output
                ELSE /\ final_phases_output' = Append(final_phases_output,
                          [phase_period |-> period,
                           ai_phase_name |->
                             IF ai.details.phase_name = Missing
                             THEN <<"Your", " ">> \o period \o <<" ", "Era">>
                             ELSE ai.details.phase_name,
                           ai_phase_summary |->
                             IF ai.details.phase_summary = Missing
                             THEN <<"...">>
                             ELSE ai.details.phase_summary,
                           track_count |-> Len(tracks),
                           average_release_year |-> year,
                           phase_cover_url |-> cover_url])
                     /\ UNCHANGED <<pc, exc, page>>
  /\ UNCHANGED <<envVars, seasonVars, pageVars, genreVars, averageVars,
                 all_saved_tracks, all_tracks_info, artist_genres_map, phases,
                 sorted_keys>>

\* Lines 202-203: final_phases_output.reverse() and the timeline.
Finish ==
  /\ fn = "analyze" /\ pc = "aggregate"
  /\ ki = Len(sorted_keys)
  /\ final_phases_output' = Reverse(final_phases_output)
  /\ page' = [template |-> "timeline.html", error |-> "",
              phases |-> final_phases_output']
  /\ pc' = "done"
  /\ UNCHANGED <<exc, nreq, envVars, seasonVars, pageVars, genreVars, averageVars,
                 all_saved_tracks, all_tracks_info, artist_genres_map, phases,
                 sorted_keys, ki, used_album_ids, picked>>

-----------------------------------------------------------------------------
\* analyze: the steps before the collection fetch, lines 118-135

\* Lines 118-120: no code in the callback.
NoCode ==
  /\ fn = "analyze" /\ pc = "start"
  /\ ~auth_code
  /\ page' = [template |-> "login.html",
              error |-> "Authentication failed. Please try again.",
              phases |-> <<>>]
  /\ pc' = "done"
  /\ UNCHANGED <<exc, nreq, envVars, seasonVars, pageVars, genreVars, averageVars,
                 runVars>>

\* Lines 124-127: the code is exchanged for a token.
TokenExchange ==
  /\ fn = "analyze" /\ pc = "start"
  /\ auth_code
  /\ nreq' = nreq + 1
  /\ \/ Abort(Raised("HTTPError", "token"))
     \/ pc' = "me" /\ UNCHANGED <<exc, page>>
  /\ UNCHANGED <<envVars, seasonVars, pageVars, genreVars, averageVars, runVars>>

\* Lines 130-135: the user's profile, then the call
\* _get_all_pages('me/tracks?limit=50', access_token, limit=1000).
GetMe ==
  /\ fn = "analyze" /\ pc = "me"
  /\ nreq' = nreq + 1
  /\ \/ Abort(Raised("HTTPError", "me")) /\ UNCHANGED pageVars
     \/ /\ pc' = "pages"
        /\ limit' = 1000 /\ endpoint' = TracksUrl /\ items' = <<>>
        /\ UNCHANGED <<lastPage, pageStats, exc, page>>
  /\ UNCHANGED <<envVars, seasonVars, genreVars, averageVars, runVars>>

-----------------------------------------------------------------------------
\* analyze: the saved tracks it runs on

\* "YYYY-MM-15T10:00:00Z"
Timestamp(year, month) ==
  NatStr(year) \o <<"-">>
    \o (IF month < 10 THEN <<"0">> ELSE <<>>) \o NatStr(month)
    \o <<"-", "1", "5", "T", "1", "0", ":", "0", "0", ":", "0", "0", "Z">>

\* Three albums: A and B carry the same cover image, C has no image and no
\* release date.
Albums ==
  {[album_id |-> <<"A">>, images |-> <<"https://i.scdn.co/image/1">>,
    release_date |-> <<"2", "0", "1", "5">>, artist_id |-> <<"a", "1">>],
   [album_id |-> <<"B">>, images |-> <<"https://i.scdn.co/image/1">>,
    release_date |-> <<"2", "0", "2", "0", "-", "0", "5", "-", "0", "1">>,
    artist_id |-> <<"a", "2">>],
   [album_id |-> <<"C">>, images |-> <<>>, release_date |-> Missing,
    artist_id |-> None]}

\* when a track was saved: April 2023 or January 2024
SavedAt == {Timestamp(2023, 4), Timestamp(2024, 1)}

Item(track, added_at, album) ==
  [track |-> track, added_at |-> added_at, album_id |-> album.album_id,
   images |-> album.images, release_date |-> album.release_date,
   artist_id |-> album.artist_id]

AlbumA == CHOOSE a \in Albums : a.album_id = <<"A">>

\* Items whose data is missing or malformed: no track object, no added_at, an
\* added_at that is no timestamp, a null release date, a release date that is
\* no number.
Broken ==
  {Item(FALSE, Timestamp(2023, 4), AlbumA),
   Item(TRUE, None, AlbumA),
   Item(TRUE, <<"s", "o", "o", "n">>, AlbumA),
   Item(TRUE, Timestamp(2023, 4), [AlbumA EXCEPT !.release_date = None]),
   Item(TRUE, Timestamp(2023, 4),
        [AlbumA EXCEPT !.release_date = <<"u", "n", "k", "n", "o", "w", "n">>])}

\* the items a collection is made of: each album saved at each time, album A
\* saved in September 2022 as well, and the broken ones
Items ==
  {Item(TRUE, at, album) : at \in SavedAt, album \in Albums}
    \cup {Item(TRUE, Timestamp(2022, 9), AlbumA)} \cup Broken

\* the n-th track id
TrackId(n) == <<"t">> \o NatStr(n)

\* a collection of the items l, each with its own track id
Library(l) ==
  [n \in 1..Len(l) |->
     [id |-> TrackId(n), track |-> l[n].track, added_at |-> l[n].added_at,
      album_id |-> l[n].album_id, images |-> l[n].images,
      release_date |-> l[n].release_date, artist_id |-> l[n].artist_id]]

Init ==
  /\ fn = "analyze" /\ pc = "start" /\ Fresh
  /\ auth_code \in BOOLEAN
  /\ gemini_api_key \in BOOLEAN
  /\ \E n \in 0..MaxTracks : \E l \in [1..n -> Items] : lib = Library(l)
  /\ auth_code \/ (lib = <<>> /\ ~gemini_api_key)
  /\ SeasonIdle /\ PagesIdle /\ GenresIdle /\ AverageIdle /\ RunIdle

Next ==
  \/ NoCode
  \/ TokenExchange
  \/ GetMe
  \/ PageRequest
  \/ PagesReturn
  \/ Extract
  \/ GenreRequest
  \/ GenresReturn
  \/ SegmentTracks
  \/ AggregatePhase
  \/ Finish

Spec == Init /\ [][Next]_vars

\* The runs that issue the collection and genre requests: analyze, and each of
\* the two helpers on its own, where a request after the first can fail.
InitUpstream == Init \/ InitPages \/ InitGenres

SpecUpstream == InitUpstream /\ [][Next]_vars

-----------------------------------------------------------------------------
\* The average release year (lines 188-189) on its own

\* release years of the tracks of a phase; 0 is the year of no release date
ReleaseYears == {0, 2015, 2016, 2020}

InitAverage ==
  /\ fn = "avg_year" /\ pc = "call" /\ Fresh
  /\ \E n \in 0..MaxPhaseTracks :
       phase_tracks \in [1..n -> [release_year : ReleaseYears]]
  /\ avg_year = PyStr("unset")
  /\ lib = <<>> /\ auth_code = FALSE /\ gemini_api_key = FALSE
  /\ SeasonIdle /\ PagesIdle /\ GenresIdle /\ RunIdle

AverageYear ==
  /\ fn = "avg_year" /\ pc = "call"
  /\ avg_year' = AvgYear(phase_tracks)
  /\ pc' = "returned"
  /\ UNCHANGED <<phase_tracks, exc, nreq, page, envVars, seasonVars, pageVars,
                 genreVars, runVars>>

NextAverage == AverageYear

SpecAverage == InitAverage /\ [][NextAverage]_vars

-----------------------------------------------------------------------------
\* Claims

\* the parts of a key "<Season> <year>"
KeySeason(k) == k[1]
KeyYear(k) == ParseInt(SubSeq(k, 3, Len(k)))
WellFormedKey(k) ==
  /\ k # None /\ Len(k) >= 3
  /\ \E n \in 1..4 : SeasonNames[n] = KeySeason(k)
  /\ k[2] = " "
  /\ KeyYear(k).ok

\* C1: _get_season_key returns, for every month 1..12 and every year, one key
\* "<Season> <year>", never None: Winter of the year before for January and
\* February, Spring, Summer and Autumn of the year for March-May, June-August
\* and September-November, Winter of the year for December, which is the key
\* of January and of February of the next year.
SeasonKeyTotal ==
  pc = "returned" /\ fn = "_get_season_key" =>
    /\ WellFormedKey(key)
    /\ dt.month \in {1, 2} =>
         KeySeason(key) = "Winter" /\ KeyYear(key).v = dt.year - 1
    /\ dt.month \in {3, 4, 5} =>
         KeySeason(key) = "Spring" /\ KeyYear(key).v = dt.year
    /\ dt.month \in {6, 7, 8} =>
         KeySeason(key) = "Summer" /\ KeyYear(key).v = dt.year
    /\ dt.month \in {9, 10, 11} =>
         KeySeason(key) = "Autumn" /\ KeyYear(key).v = dt.year
    /\ dt.month = 12 =>
         /\ KeySeason(key) = "Winter" /\ KeyYear(key).v = dt.year
         /\ key = _get_season_key([month |-> 1, year |-> dt.year + 1])
         /\ key = _get_season_key([month |-> 2, year |-> dt.year + 1])

\* December 2023 was given the key "Winter 2023".
SeasonKeyWitness ==
  /\ pc = "returned" /\ fn = "_get_season_key"
  /\ dt = [month |-> 12, year |-> 2023]
  /\ key = <<"Winter", " ", "2", "0", "2", "3">>

\* the years above zero among the tracks of a phase, and the phase without
\* its tracks of year zero
PositiveYears(tracks) ==
  LET with == SelectSeq(tracks, LAMBDA t : t.release_year # 0 /\ t.release_year > 0)
  IN [n \in 1..Len(with) |-> with[n].release_year]
WithoutYearZero(tracks) == SelectSeq(tracks, LAMBDA t : t.release_year # 0)

\* C9: the average release year of a phase is the mean of its tracks' years
\* above zero, rounded to the nearest integer (a half to the even one), so the
\* tracks of year 0 do not change it, and years [0, 2015, 2020] give 2018; with
\* no year above zero it is 'N/A', never 0.
AverageYearOfPositiveYears ==
  pc = "returned" /\ fn = "avg_year" =>
    LET years == PositiveYears(phase_tracks)
        n == Len(years)
        total == Sum(years)
    IN /\ n = 0 => avg_year = PyStr("N/A")
       /\ n > 0 =>
            /\ avg_year.t = "int"
            /\ 2 * (avg_year.v * n - total) <= n
            /\ 2 * (total - avg_year.v * n) <= n
            /\ 2 * (total % n) = n => avg_year.v % 2 = 0
            /\ avg_year.v > 0
       /\ avg_year = AvgYear(WithoutYearZero(phase_tracks))
       /\ [m \in 1..Len(phase_tracks) |-> phase_tracks[m].release_year]
            = <<0, 2015, 2020>> => avg_year = PyInt(2018)

\* The years 0, 2015 and 2020 were averaged to 2018.
AverageYearWitness ==
  /\ pc = "returned" /\ fn = "avg_year"
  /\ phase_tracks = <<[release_year |-> 0], [release_year |-> 2015],
                      [release_year |-> 2020]>>
  /\ avg_year = PyInt(2018)

\* the ids of artist_ids requested so far, request by request
RequestedIds == {<<c, j>> \in (1..Len(chunks)) \X (1..50) : j <= Len(chunks[c])}

\* C7: _get_artist_genres on a list of N distinct ids issues ceil(N/50)
\* requests (none, and an empty mapping, for N = 0), each with at most 50 ids,
\* every id of the list in exactly one request, and returns a mapping with no
\* id outside the list.
GenreRequestsInChunksOf50 ==
  fn = "_get_artist_genres" =>
    /\ \A c \in 1..Len(chunks) : Len(chunks[c]) \in 1..50
    /\ \A m \in 1..Len(genres_map) :
         \E a \in 1..Len(artist_ids) : artist_ids[a] = genres_map[m].k
    /\ pc = "returned" =>
         /\ nreq = (Len(artist_ids) + 49) \div 50
         /\ Len(chunks) = nreq
         /\ Len(artist_ids) = 0 => nreq = 0 /\ genres_map = <<>>
         /\ \A a \in 1..Len(artist_ids) :
              Cardinality({r \in RequestedIds :
                             chunks[r[1]][r[2]] = artist_ids[a]}) = 1

\* 101 ids were resolved with three requests.
GenreRequestsWitness ==
  /\ pc = "returned" /\ fn = "_get_artist_genres"
  /\ Len(artist_ids) = 101 /\ nreq = 3 /\ Len(chunks[3]) = 1
  /\ Len(genres_map) = 101

CeilDiv50(n) == (n + 49) \div 50

\* what C10 says of every page request, of the end of the loop and of the
\* result, but for the number of pages
PagesAsClaimed ==
  /\ pageStats.requests > 0 =>
       /\ lastPage.asked = Min(50, limit - lastPage.before)
       /\ Len(items) = lastPage.before + lastPage.got
       /\ IF lastPage.next /\ Len(items) < limit
          THEN <<API_BASE_URL>> \o endpoint = NextUrl(Len(items))
          ELSE endpoint = None
  /\ pc = "returned" =>
       \/ pageStats.requests = 0 /\ limit <= 0
       \/ pageStats.requests > 0 /\ (~lastPage.next \/ Len(items) >= limit)
  /\ pc = "pages" /\ pageStats.requests > 0 /\ lastPage.next /\ Len(items) < limit
       => PagesLoop
  /\ Len(items) <= Len(lib) /\ items = SubSeq(lib, 1, Len(items))
  /\ ~pageStats.over => Len(items) <= limit

\* C10 as stated: _get_all_pages with cap L asks each page for
\* min(50, L - items so far) items, follows the continuation, stops exactly
\* when there is none or L items are held, returns the pages' items in the
\* order received and, when no page holds more than was asked for, holds at
\* most L items and ends after at most ceil(L/50) non-empty pages.
PagesWithinCeilOfCap ==
  fn = "_get_all_pages" =>
    /\ PagesAsClaimed
    /\ ~pageStats.over => pageStats.nonEmpty <= CeilDiv50(limit)

\* C10 as amended: the same, but the loop ends after at most L non-empty pages,
\* and after at most ceil(L/50) requests when, in addition, every page that
\* carries a continuation holds exactly the number of items asked for.
PagesWithinCap ==
  fn = "_get_all_pages" =>
    /\ PagesAsClaimed
    /\ ~pageStats.over => pageStats.nonEmpty <= limit
    /\ ~pageStats.over /\ ~pageStats.short => pageStats.requests <= CeilDiv50(limit)

\* A cap of 101 was filled by three full pages, the last one of one item.
PagesWitness ==
  /\ pc = "returned" /\ fn = "_get_all_pages"
  /\ limit = 101 /\ Len(items) = 101 /\ pageStats.requests = 3
  /\ lastPage = [asked |-> 1, before |-> 100, got |-> 1, next |-> TRUE]
  /\ ~pageStats.over /\ ~pageStats.short

-----------------------------------------------------------------------------
\* Claims about analyze

Timeline == pc = "done" /\ page.template = "timeline.html"

\* the periods of a list of phase summaries, in order
Periods(list) == [n \in 1..Len(list) |-> list[n].period]
PhasePeriods(list) == [n \in 1..Len(list) |-> list[n].phase_period]

\* a PhaseKey's place in the order by (year, season index)
PhaseKeyRank(k) ==
  4 * KeyYear(k).v + (CHOOSE n \in 0..3 : SeasonNames[n + 1] = KeySeason(k))

\* the first month a phase covers, counted from year 0: "Winter N" starts in
\* December of N, "Spring N" in March, "Summer N" in June, "Autumn N" in
\* September
CalendarStart(k) ==
  12 * KeyYear(k).v
    + (CASE KeySeason(k) = "Winter" -> 12
         [] KeySeason(k) = "Spring" -> 3
         [] KeySeason(k) = "Summer" -> 6
         [] OTHER -> 9)

\* C2: narrative enrichment never raises and never aborts the run, whatever
\* the statistics of the phase and whatever the generation service does, and
\* a phase whose name was not generated is named "Your <period> Era" with the
\* generic summary.
NarrativeNeverRaises ==
  /\ exc.at \notin {"_get_ai_phase_details", "ai_details.get"}
  /\ \A n \in 1..Len(final_phases_output) :
       LET phase == final_phases_output[n]
       IN \/ /\ phase.ai_phase_name = <<"generated name">>
             /\ phase.ai_phase_summary = <<"generated summary">>
          \/ /\ phase.ai_phase_name
                  = <<"Your", " ">> \o phase.phase_period \o <<" ", "Era">>
             /\ phase.ai_phase_summary
                  = <<"A distinct period in your listening journey.">>

\* C3: the cover of a phase is that of its first-ranked album not yet in
\* used_album_ids, the album whose cover is taken is then in used_album_ids,
\* and no album gives its cover to two phases.
ArtworkNeverRepeats ==
  \A n \in 1..Len(picked) :
    picked[n].id # None /\ picked[n].cover # PLACEHOLDER =>
      /\ picked[n].id \in used_album_ids
      /\ \A m \in 1..(n - 1) :
           picked[m].cover # PLACEHOLDER => picked[m].id # picked[n].id

\* C4: a track whose added_at or release date is missing or unparseable never
\* fails the run: no run ends on the exception of reading a release date
\* (line 147) or a timestamp (line 154), and no track without a readable
\* timestamp is in a phase.
DataErrorsNeverFailTheRun ==
  /\ exc.at \notin {"release_date", "added_at"}
  /\ \A b \in 1..Len(phases) : \A t \in 1..Len(phases[b].v) :
       AddedAt(phases[b].v[t].added_at).exc = "none"

\* C5: the timeline is newest first in calendar time: of two phases the one
\* that covers the later months comes first.
NewestFirstInCalendarTime ==
  Timeline =>
    \A a, b \in 1..Len(page.phases) :
      a < b => CalendarStart(page.phases[a].phase_period)
                 > CalendarStart(page.phases[b].phase_period)

\* C6: the phases are aggregated in strictly ascending order of (year, season
\* index), one summary for each non-empty bucket, and the timeline lists them
\* in exactly the reverse order, strictly descending, no key twice.
AscendingThenReversed ==
  /\ \A a, b \in 1..Len(picked) :
       a < b => PhaseKeyRank(picked[a].period) < PhaseKeyRank(picked[b].period)
  /\ pc = "aggregate" => PhasePeriods(final_phases_output) = Periods(picked)
  /\ Timeline /\ all_saved_tracks.v # <<>> =>
       /\ PhasePeriods(page.phases) = Reverse(Periods(picked))
       /\ \A a, b \in 1..Len(page.phases) :
            a < b => PhaseKeyRank(page.phases[a].phase_period)
                       > PhaseKeyRank(page.phases[b].phase_period)
       /\ {page.phases[n].phase_period : n \in 1..Len(page.phases)}
            = {phases[b].k : b \in 1..Len(phases)}
       /\ \A b \in 1..Len(phases) :
            /\ phases[b].v # <<>>
            /\ Cardinality({n \in 1..Len(page.phases) :
                              page.phases[n].phase_period = phases[b].k}) = 1
       /\ \A n \in 1..Len(page.phases) :
            page.phases[n].track_count
              = Len(DictGet(phases, page.phases[n].phase_period))

\* Three phases are on the timeline: Autumn 2022, Winter 2023 and Spring 2023
\* were aggregated in this order and are listed in the reverse one.
AscendingThenReversedWitness ==
  /\ Timeline
  /\ PhasePeriods(page.phases)
       = <<SeasonStr("Spring", 2023), SeasonStr("Winter", 2023),
           SeasonStr("Autumn", 2022)>>

UpstreamFailed ==
  exc.type = "HTTPError" /\ exc.at \in {"_get_all_pages", "_get_artist_genres"}

\* C8: when a page request or a chunk request fails, the helper returns
\* nothing (no partial list, no partial mapping), analyze emits no phase
\* summary and renders the analysis-failure page, and no further upstream
\* request is issued.
UpstreamFailureAborts ==
  /\ [](UpstreamFailed =>
          /\ pc = IF fn = "analyze" THEN "done" ELSE "raised"
          /\ fn = "analyze" => page = AnalysisErrorPage
          /\ final_phases_output = <<>>
          /\ exc.at = "_get_all_pages" => ~all_saved_tracks.bound
          /\ ~artist_genres_map.bound)
  /\ [][UpstreamFailed => nreq' = nreq /\ page' = page /\ pc' = pc]_vars
  /\ [][~UpstreamFailed /\ UpstreamFailed' =>
          nreq' = nreq + 1 /\ pc \in {"pages", "genres"}]_vars

\* The request for the genres of the artists of three saved tracks failed, and
\* the failure page was rendered.
UpstreamFailureWitness ==
  /\ UpstreamFailed /\ exc.at = "_get_artist_genres"
  /\ fn = "analyze"
  /\ all_saved_tracks.bound /\ Len(all_saved_tracks.v) = 3
  /\ pc = "done" /\ page = AnalysisErrorPage
====
